---- MODULE Spec2Model ----
(***************************************************************************)
(* app_config: poll a remote configuration source, detect a change against *)
(* a cached snapshot kept in a sqlite store, and run the declared hooks on *)
(* the new payload.                                                        *)
(*                                                                         *)
(* Three specifications share the variables below:                         *)
(*   SpecOnce      one call (from_file, check, query) on a document        *)
(*   Spec          invocations of the binary, one after the other          *)
(*   SpecProvider  the Provider objects (new / poll / query) on their own  *)
(***************************************************************************)
EXTENDS Integers, Sequences, FiniteSets, TLC

\* ------------------------------------------------------------------ bounds
\* Largest configuration version the remote source hands out.
MaxVersion == 1
\* Most hook sections in a document given to the factory alone.
MaxHooks == 4
\* Most hook sections in a document of a whole invocation.
MaxCheckHooks == 2
\* Most entries under 'providers'.
MaxProviders == 2
\* Most sections of one document whose settings fail to deserialize.
MaxInvalid == 1
\* What a pipe of the operating system holds before a write to it blocks,
\* in chunks of payload.
PipeCap == 1

\* ------------------------------------------------------- program constants
EXIT_OK == 0
\* main returns Err(Report)
EXIT_FAILURE == 1
EXIT_UNAVAILABLE == 69
EXIT_SOFTWARE == 70
EXIT_OSFILE == 72
EXIT_CONFIG == 78
\* a panic (unwrap / expect / assert!) in the main thread
EXIT_PANIC == 101

\* Payload strings; "" is the value the cache is seeded with.
Payloads == {"", "a", "b"}
Versions == 0..MaxVersion

\* Section names a document may declare.  "consul" and "slack" stand for
\* names no macro arm mentions.
ProviderNames == {"mock", "aws", "param_store", "consul"}
HookNames == {"template", "file", "raw", "command", "slack"}

\* The arms of parse_providers! and of parse_hooks!, in macro order.
ProviderArms == <<"mock", "aws">>
HookArms == <<"template", "file", "raw", "command">>

Range(s) == {s[i] : i \in DOMAIN s}

\* Sequences of distinct elements of S, of length at most n.
DistinctSeqs(S, n) ==
    UNION {{s \in [1..k -> S] : \A i, j \in 1..k : i # j => s[i] # s[j]} : k \in 0..n}

\* ---------------------------------------------------------------- the store
\* One sqlite database: the row with id 0 of each provider's table.
\* 'present' is FALSE until create_cache has made the table and its row.
\* 'file' tells what the path is to sqlite: "ok" (no file yet, or a database
\* whose tables are as create_cache makes them; an in-memory database),
\* "unopenable" (Connection::open fails: the directory does not exist, no
\* permission), "notdb" (the file opens and the statements fail on it: it is
\* no database, or its table has other columns).
NoDb ==
    [file |-> "ok",
     appConfig |-> [present |-> FALSE, version |-> 0, data |-> ""],
     param_store |-> [present |-> FALSE, data |-> ""]]

\* The state files no provider can use.
BadDbs == {[NoDb EXCEPT !.file = f] : f \in {"unopenable", "notdb"}}

Dbs ==
    [file : {"ok"},
     appConfig : {NoDb.appConfig} \cup [present : {TRUE}, version : Versions, data : Payloads],
     param_store : {NoDb.param_store} \cup [present : {TRUE}, data : Payloads]]
    \cup BadDbs

\* The state files an invocation may find at the path its document names.
StateFiles(state_file) == IF state_file THEN {NoDb} \cup BadDbs ELSE {NoDb}

\* ------------------------------------------------------------ the documents
\* A configuration document.  'file' tells whether the path can be read and
\* is TOML; providers.keys and hooks.keys list the section names in the order
\* the document declares them; 'invalid' holds the sections whose settings do
\* not deserialize into their Conf struct; state_file, data, pipe_data are the
\* settings of the aws / mock / command sections; tpl tells whether the file
\* named by the template section can be read, 'helper' whether the
\* template in it calls the helper `key`, and out_file whether the template
\* section sets out_file (without it the hook prints to stdout).  'table' is FALSE for a 'providers'
\* or 'hooks' entry that is no table (providers = 3, hooks = []).
MakeDoc(file, pp, pk, hp, hk, inv, sf, data, pipe, tpl) ==
    [file |-> file,
     providers |-> [present |-> pp, table |-> TRUE, keys |-> pk],
     hooks |-> [present |-> hp, table |-> TRUE, keys |-> hk],
     invalid |-> inv, state_file |-> sf, data |-> data,
     pipe_data |-> pipe, tpl |-> tpl, helper |-> FALSE, out_file |-> TRUE]

DefaultDoc ==
    MakeDoc("ok", TRUE, <<"mock">>, FALSE, <<>>, {}, FALSE, "a", FALSE, TRUE)

\* The documents that differ from d in what MakeDoc leaves at its default:
\* an entry 'providers' or 'hooks' without sections may be something else
\* than a table, and a template section that gives a hook may call the
\* helper `key` and may leave out_file unset.
Variants(d) ==
    {[d EXCEPT !.providers.table = pt, !.hooks.table = ht, !.helper = h, !.out_file = of] :
        pt \in (IF d.providers.present /\ d.providers.keys = <<>> THEN BOOLEAN ELSE {TRUE}),
        ht \in (IF d.hooks.present /\ d.hooks.keys = <<>> THEN BOOLEAN ELSE {TRUE}),
        h \in (IF "template" \in Range(d.hooks.keys) \ d.invalid /\ d.tpl
                THEN BOOLEAN ELSE {FALSE}),
        of \in (IF "template" \in Range(d.hooks.keys) \ d.invalid /\ d.tpl
                 THEN BOOLEAN ELSE {TRUE})}

Deserializable == {"mock", "aws", "param_store", "template", "file", "raw", "command"}

\* The canonical order of a set of provider names (a TOML table's keys).
ProviderOrder == <<"aws", "consul", "mock", "param_store">>

RECURSIVE KeysOf(_, _)
KeysOf(S, i) ==
    IF i > Len(ProviderOrder) THEN <<>>
    ELSE (IF ProviderOrder[i] \in S THEN <<ProviderOrder[i]>> ELSE <<>>) \o KeysOf(S, i + 1)

\* d is a document with at most n hook sections.  Settings that no section
\* of the document reads keep their default.  The provider sections come in
\* one order only: get_provider reads a key only when there is exactly one.
IsDoc(d, n) ==
    \/ \E f \in {"missing", "garbled"} : d = [DefaultDoc EXCEPT !.file = f]
    \/ \E ps \in {x \in SUBSET ProviderNames : Cardinality(x) <= MaxProviders} :
       \E hk \in DistinctSeqs(HookNames, n) :
       \E pp \in (IF ps = {} THEN BOOLEAN ELSE {TRUE}) :
       \E hp \in (IF hk = <<>> THEN BOOLEAN ELSE {TRUE}) :
       \E inv \in {x \in SUBSET ((ps \cup Range(hk)) \cap Deserializable) :
                        Cardinality(x) <= MaxInvalid} :
       \E sf \in (IF ps \in {{"aws"}, {"param_store"}} THEN BOOLEAN ELSE {FALSE}) :
       \E data \in (IF ps = {"mock"} THEN {"a", "b"} ELSE {"a"}) :
       \E pipe \in (IF "command" \in Range(hk) THEN BOOLEAN ELSE {FALSE}) :
       \E tpl \in (IF "template" \in Range(hk) THEN BOOLEAN ELSE {TRUE}) :
          d \in Variants(MakeDoc("ok", pp, KeysOf(ps, 1), hp, hk, inv, sf, data, pipe, tpl))

\* --------------------------------------------------------------- providers
NoProvider ==
    [kind |-> "none", data |-> "", current_version |-> 0, state_file |-> FALSE, mem |-> NoDb]

\* Mock::new
Mock_new(data) == [NoProvider EXCEPT !.kind = "mock", !.data = data]

\* AWS::create_cache that writes the seed row over the row it finds
\* (INSERT OR REPLACE).
AWS_create_cache_Reseed(db) ==
    [db EXCEPT !.appConfig = [present |-> TRUE, version |-> 0, data |-> ""]]

\* AWS::create_cache: CREATE TABLE IF NOT EXISTS, then INSERT (0, 0, "")
\* WHERE NOT EXISTS the row with id 0.
AWS_create_cache(db) ==
    IF db.appConfig.present THEN db
    ELSE [db EXCEPT !.appConfig = [present |-> TRUE, version |-> 0, data |-> ""]]

\* AWS::pull_latest_version: SELECT version FROM appConfig WHERE id=0
AWS_pull_latest_version(db) == db.appConfig.version

\* AWS::update_cache that sets the version and leaves the data column.
AWS_update_cache_VersionOnly(db, version, data) ==
    IF db.appConfig.present
    THEN [db EXCEPT !.appConfig.version = version]
    ELSE db

\* AWS::update_cache: UPDATE appConfig SET version, data WHERE id=0
AWS_update_cache(db, version, data) ==
    IF db.appConfig.present
    THEN [db EXCEPT !.appConfig = [present |-> TRUE, version |-> version, data |-> data]]
    ELSE db

\* What a constructor gives: the provider and the state file as it is left,
\* with code EXIT_OK; or the code the process ended with inside it.
Made(provider, disk) == [provider |-> provider, disk |-> disk, code |-> EXIT_OK]

NotMade(code, disk) == [provider |-> NoProvider, disk |-> disk, code |-> code]

\* AWS::new: open the state file, or a fresh in-memory database when there
\* is none; create the cache; read current_version from it.
AWS_new(state_file, disk) ==
    IF state_file /\ disk.file = "unopenable"
    THEN NotMade(EXIT_OSFILE, disk)
    ELSE IF state_file /\ disk.file = "notdb"
    THEN NotMade(EXIT_SOFTWARE, disk)
    ELSE LET conn == IF state_file THEN disk ELSE NoDb
             db == AWS_create_cache(conn)
         IN  Made([kind |-> "aws", data |-> "",
                   current_version |-> AWS_pull_latest_version(db),
                   state_file |-> state_file,
                   mem |-> IF state_file THEN NoDb ELSE db],
                  IF state_file THEN db ELSE disk)

\* ParamStore::create_cache that writes the seed row over the row it finds.
ParamStore_create_cache_Reseed(db) ==
    [db EXCEPT !.param_store = [present |-> TRUE, data |-> ""]]

\* ParamStore::create_cache
ParamStore_create_cache(db) ==
    IF db.param_store.present THEN db
    ELSE [db EXCEPT !.param_store = [present |-> TRUE, data |-> ""]]

\* ParamStore::pull_latest_data: SELECT data FROM param_store WHERE id=0
ParamStore_pull_latest_data(db) == db.param_store.data

\* ParamStore::update_cache: UPDATE param_store SET data WHERE id=0
ParamStore_update_cache(db, data) ==
    IF db.param_store.present
    THEN [db EXCEPT !.param_store = [present |-> TRUE, data |-> data]]
    ELSE db

\* ParamStore::new
ParamStore_new(state_file, disk) ==
    IF state_file /\ disk.file = "unopenable"
    THEN NotMade(EXIT_OSFILE, disk)
    ELSE IF state_file /\ disk.file = "notdb"
    THEN NotMade(EXIT_SOFTWARE, disk)
    ELSE LET conn == IF state_file THEN disk ELSE NoDb
             db == ParamStore_create_cache(conn)
         IN  Made([kind |-> "param_store", data |-> "", current_version |-> 0,
                   state_file |-> state_file,
                   mem |-> IF state_file THEN NoDb ELSE db],
                  IF state_file THEN db ELSE disk)

\* ----------------------------------------------------------------- factory
\* What Config::from_file gives: status "ok" with the Config struct, or the
\* way the process ended ("exit" with its code, "panic").  'disk' is the state file
\* as the load leaves it.
Loaded(provider, hooks, disk) ==
    [status |-> "ok", code |-> EXIT_OK, provider |-> provider, hooks |-> hooks, disk |-> disk]

LoadExit(code, disk) ==
    [status |-> "exit", code |-> code, provider |-> NoProvider, hooks |-> <<>>, disk |-> disk]

\* The load panicked (an unwrap on a None).
LoadPanic(disk) ==
    [status |-> "panic", code |-> EXIT_PANIC, provider |-> NoProvider, hooks |-> <<>>,
     disk |-> disk]

\* The keys of a TOML table in the order keys() yields them.
TableKeys(table) == table.keys

\* The Conf struct's convert() of the provider arm 'section'.
ProviderConvert(section, doc, disk) ==
    IF section = "mock"
    THEN Made(Mock_new(doc.data), disk)
    ELSE AWS_new(doc.state_file, disk)

\* parse_providers! with a final else that falls back to the mock instead of
\* ending the process.
RECURSIVE ParseProviders_Fallback(_, _, _, _)
ParseProviders_Fallback(i, provider_type, doc, disk) ==
    IF i > Len(ProviderArms)
    THEN Loaded(Mock_new(doc.data), <<>>, disk)
    ELSE IF provider_type = ProviderArms[i]
         THEN IF ProviderArms[i] \in doc.invalid
              THEN LoadExit(EXIT_CONFIG, disk)
              ELSE LET made == ProviderConvert(ProviderArms[i], doc, disk)
                   IN  IF made.code # EXIT_OK
                       THEN LoadExit(made.code, made.disk)
                       ELSE Loaded(made.provider, <<>>, made.disk)
         ELSE ParseProviders_Fallback(i + 1, provider_type, doc, disk)

\* parse_providers!: the if / else-if chain over the arms, from arm i on.
RECURSIVE ParseProviders(_, _, _, _)
ParseProviders(i, provider_type, doc, disk) ==
    IF i > Len(ProviderArms)
    THEN LoadExit(EXIT_CONFIG, disk)
    ELSE IF provider_type = ProviderArms[i]
         THEN IF ProviderArms[i] \in doc.invalid
              THEN LoadExit(EXIT_CONFIG, disk)
              ELSE LET made == ProviderConvert(ProviderArms[i], doc, disk)
                   IN  IF made.code # EXIT_OK
                       THEN LoadExit(made.code, made.disk)
                       ELSE Loaded(made.provider, <<>>, made.disk)
         ELSE ParseProviders(i + 1, provider_type, doc, disk)

\* Config::get_provider without the test that the table holds one entry: the
\* last key decides.
get_provider_AnyCount(doc, disk) ==
    IF ~doc.providers.present
    THEN LoadExit(EXIT_CONFIG, disk)
    ELSE IF ~doc.providers.table
    THEN LoadPanic(disk)
    ELSE IF Len(TableKeys(doc.providers)) = 0
    THEN LoadExit(EXIT_CONFIG, disk)
    ELSE LET keys == TableKeys(doc.providers)
             provider_type == keys[Len(keys)]
         IN  ParseProviders(1, provider_type, doc, disk)

\* Config::get_provider.  maps["providers"].as_table().unwrap() panics on
\* an entry that is no table.
get_provider(doc, disk) ==
    IF ~doc.providers.present
    THEN LoadExit(EXIT_CONFIG, disk)
    ELSE IF ~doc.providers.table
    THEN LoadPanic(disk)
    ELSE IF Len(TableKeys(doc.providers)) # 1
         THEN LoadExit(EXIT_CONFIG, disk)
         ELSE LET keys == TableKeys(doc.providers)
                  provider_type == keys[Len(keys)]
              IN  ParseProviders(1, provider_type, doc, disk)

\* A hook as the factory builds it.
MakeHook(kind, doc) ==
    [kind |-> kind, pipe_data |-> IF kind = "command" THEN doc.pipe_data ELSE FALSE,
     helper |-> IF kind = "template" THEN doc.helper ELSE FALSE,
     out_file |-> IF kind = "template" THEN doc.out_file ELSE FALSE]

\* One pass of the inner $( ... )+ of parse_hooks! for the key hook_section:
\* each arm in turn, from arm i on.  acc is the loop's state so far.
RECURSIVE ParseHookArms(_, _, _, _)
ParseHookArms(i, hook_section, doc, acc) ==
    IF i > Len(HookArms) \/ acc.status # "ok"
    THEN acc
    ELSE IF hook_section = HookArms[i]
         THEN IF HookArms[i] \in doc.invalid
              THEN ParseHookArms(i + 1, hook_section, doc,
                                 [acc EXCEPT !.status = "exit", !.code = EXIT_CONFIG])
              ELSE IF HookArms[i] = "template" /\ ~doc.tpl
                   THEN ParseHookArms(i + 1, hook_section, doc,
                                      [acc EXCEPT !.status = "exit", !.code = EXIT_OSFILE])
                   ELSE ParseHookArms(i + 1, hook_section, doc,
                            [acc EXCEPT !.hooks = Append(@, MakeHook(HookArms[i], doc))])
         ELSE ParseHookArms(i + 1, hook_section, doc, acc)

\* parse_hooks! with a final else like that of parse_providers!: a key that
\* no arm names ends the process.
RECURSIVE ParseHooks_RejectUnknown(_, _, _, _)
ParseHooks_RejectUnknown(k, keys, doc, acc) ==
    IF ~doc.hooks.table
    THEN [acc EXCEPT !.status = "panic", !.code = EXIT_PANIC]
    ELSE IF k > Len(keys) \/ acc.status # "ok"
    THEN acc
    ELSE IF keys[k] \notin Range(HookArms)
         THEN [acc EXCEPT !.status = "exit", !.code = EXIT_CONFIG]
         ELSE ParseHooks_RejectUnknown(k + 1, keys, doc, ParseHookArms(1, keys[k], doc, acc))

\* parse_hooks!: the loop over the keys of maps["hooks"], from key k on.
\* maps["hooks"].as_table().unwrap() panics on an entry that is no table.
RECURSIVE ParseHooks(_, _, _, _)
ParseHooks(k, keys, doc, acc) ==
    IF ~doc.hooks.table
    THEN [acc EXCEPT !.status = "panic", !.code = EXIT_PANIC]
    ELSE IF k > Len(keys) \/ acc.status # "ok"
    THEN acc
    ELSE ParseHooks(k + 1, keys, doc, ParseHookArms(1, keys[k], doc, acc))

\* Config::get_hooks that takes the 'hooks' section to be required, like
\* 'providers'.
get_hooks_Required(doc) ==
    IF ~doc.hooks.present
    THEN [status |-> "exit", code |-> EXIT_CONFIG, hooks |-> <<>>]
    ELSE ParseHooks(1, TableKeys(doc.hooks), doc,
                    [status |-> "ok", code |-> EXIT_OK, hooks |-> <<>>])

\* Config::get_hooks with the loops exchanged: the arms outside, the keys
\* inside, so that the hooks come in macro order.
get_hooks_ArmOrder(doc) ==
    LET none == [status |-> "ok", code |-> EXIT_OK, hooks |-> <<>>]
        declared == Range(TableKeys(doc.hooks))
    IN  IF ~doc.hooks.present
        THEN none
        ELSE ParseHooks(1, SelectSeq(HookArms, LAMBDA a : a \in declared), doc, none)

\* Config::get_hooks
get_hooks(doc) ==
    LET none == [status |-> "ok", code |-> EXIT_OK, hooks |-> <<>>]
    IN  IF ~doc.hooks.present
        THEN none
        ELSE ParseHooks(1, TableKeys(doc.hooks), doc, none)

\* Config::from_file that keeps the hooks parsed before a section failed.
LoadHooks_Partial(p, h) ==
    IF p.status # "ok"
    THEN p
    ELSE Loaded(p.provider, h.hooks, p.disk)

\* Config::from_file, from the provider that get_provider gave on.
LoadHooks(p, h) ==
    IF p.status # "ok"
    THEN p
    ELSE IF h.status # "ok"
         THEN [LoadExit(h.code, p.disk) EXCEPT !.status = h.status]
         ELSE Loaded(p.provider, h.hooks, p.disk)

\* Config::from_file
from_file(document, d) ==
    IF document.file = "missing"
    THEN LoadExit(EXIT_OSFILE, d)
    ELSE IF document.file = "garbled"
         THEN LoadExit(EXIT_CONFIG, d)
         ELSE LoadHooks(get_provider(document, d), get_hooks(document))

\* ------------------------------------------------------------------- poll
\* What a poll or a query gives: "Some" / "None" / "Ok" with the data, "Err"
\* (an error returned to the caller), or the way the process ended inside the
\* call ("exit" with its code, "panic").
Ret(kind, data, code) == [kind |-> kind, data |-> data, code |-> code]

Polled(ret, provider, disk) == [ret |-> ret, provider |-> provider, disk |-> disk]

\* The database behind a provider's db_conn.
ConnDb(p, disk) == IF p.state_file THEN disk ELSE p.mem

\* The provider and the state file after db_conn holds db.
WithDb(ret, p, disk, db) ==
    IF p.state_file
    THEN Polled(ret, p, db)
    ELSE Polled(ret, [p EXCEPT !.mem = db], disk)

\* The answers of the remote source.  "ok" carries the version and the
\* content; "err" is a failed call; "nover" an answer without a version,
\* "badver" a version that is no decimal number, "nocontent" an answer without
\* content (AppConfig); "noparam" an answer without the parameter's value
\* (Parameter Store).
RespKinds(kind) ==
    IF kind = "aws" THEN {"ok", "err", "nover", "badver", "nocontent"}
    ELSE IF kind = "param_store" THEN {"ok", "err", "noparam"}
    ELSE {"ok"}

Response(respKind, rem) == [kind |-> respKind, version |-> rem.version, data |-> rem.data]

\* AWS::poll that empties the cache before it asks the remote source, so
\* that a failed call leaves the seed row behind.
AWS_poll_ClearFirst(p, disk, resp, writeOk) ==
    LET cleared == AWS_create_cache_Reseed(ConnDb(p, disk))
    IN  IF resp.kind \in {"err", "nover"}
        THEN WithDb(Ret("exit", "", EXIT_UNAVAILABLE), p, disk, cleared)
        ELSE IF resp.kind = "badver"
        THEN WithDb(Ret("panic", "", EXIT_PANIC), p, disk, cleared)
        ELSE IF p.current_version = resp.version
        THEN Polled(Ret("None", "", EXIT_OK), p, disk)
        ELSE IF resp.kind = "nocontent"
        THEN WithDb(Ret("panic", "", EXIT_PANIC), p, disk, cleared)
        ELSE WithDb(Ret("Some", resp.data, EXIT_OK), p, disk,
                    IF writeOk THEN AWS_update_cache(cleared, resp.version, resp.data)
                    ELSE cleared)

\* AWS::poll that returns whatever it fetched, without comparing versions.
AWS_poll_AlwaysSome(p, disk, resp, writeOk) ==
    IF resp.kind \in {"err", "nover"}
    THEN Polled(Ret("exit", "", EXIT_UNAVAILABLE), p, disk)
    ELSE IF resp.kind \in {"badver", "nocontent"}
    THEN Polled(Ret("panic", "", EXIT_PANIC), p, disk)
    ELSE WithDb(Ret("Some", resp.data, EXIT_OK), p, disk,
                IF writeOk THEN AWS_update_cache(ConnDb(p, disk), resp.version, resp.data)
                ELSE ConnDb(p, disk))

\* AWS::poll, with get_config.  writeOk: the cache's UPDATE succeeds.
AWS_poll(p, disk, resp, writeOk) ==
    IF resp.kind = "err"
    THEN Polled(Ret("exit", "", EXIT_UNAVAILABLE), p, disk)
    ELSE IF resp.kind = "nover"
    THEN Polled(Ret("exit", "", EXIT_UNAVAILABLE), p, disk)
    ELSE IF resp.kind = "badver"
    THEN Polled(Ret("panic", "", EXIT_PANIC), p, disk)
    ELSE IF p.current_version = resp.version
    THEN Polled(Ret("None", "", EXIT_OK), p, disk)
    ELSE IF resp.kind = "nocontent"
    THEN Polled(Ret("panic", "", EXIT_PANIC), p, disk)
    ELSE LET db == ConnDb(p, disk)
             saved == IF writeOk THEN AWS_update_cache(db, resp.version, resp.data) ELSE db
         IN  WithDb(Ret("Some", resp.data, EXIT_OK), p, disk, saved)

\* AWS::query
AWS_query(p, disk) ==
    LET db == ConnDb(p, disk)
    IN  IF db.appConfig.present
        THEN Ret("Ok", db.appConfig.data, EXIT_OK)
        ELSE Ret("Err", "", EXIT_FAILURE)

\* ParamStore::poll, with get_params.
ParamStore_poll(p, disk, resp, writeOk) ==
    IF resp.kind = "err"
    THEN Polled(Ret("exit", "", EXIT_UNAVAILABLE), p, disk)
    ELSE IF resp.kind = "noparam"
    THEN Polled(Ret("Err", "", EXIT_FAILURE), p, disk)
    ELSE LET db == ConnDb(p, disk)
             value == resp.data
             old_value == ParamStore_pull_latest_data(db)
         IN  IF value = old_value
             THEN Polled(Ret("None", "", EXIT_OK), p, disk)
             ELSE IF ~writeOk
                  THEN Polled(Ret("Err", "", EXIT_FAILURE), p, disk)
                  ELSE WithDb(Ret("Some", value, EXIT_OK), p, disk,
                              ParamStore_update_cache(db, value))

\* ParamStore::query
ParamStore_query(p, disk) ==
    LET db == ConnDb(p, disk)
    IN  IF db.param_store.present
        THEN Ret("Ok", ParamStore_pull_latest_data(db), EXIT_OK)
        ELSE Ret("Err", "", EXIT_FAILURE)

\* Mock::poll that reports 'no change'.
Mock_poll_NoChange(p, disk) == Polled(Ret("None", "", EXIT_OK), p, disk)

\* Mock::poll
Mock_poll(p, disk) == Polled(Ret("Some", p.data, EXIT_OK), p, disk)

\* Mock::query
Mock_query(p) == Ret("Ok", p.data, EXIT_OK)

\* Provider::poll on the trait object.
Provider_poll(p, disk, resp, writeOk) ==
    IF p.kind = "aws" THEN AWS_poll(p, disk, resp, writeOk)
    ELSE IF p.kind = "param_store" THEN ParamStore_poll(p, disk, resp, writeOk)
    ELSE Mock_poll(p, disk)

\* Provider::query on the trait object.
Provider_query(p, disk) ==
    IF p.kind = "aws" THEN AWS_query(p, disk)
    ELSE IF p.kind = "param_store" THEN ParamStore_query(p, disk)
    ELSE Mock_query(p)

\* Provider::query that writes the seed row over the cache before it answers.
Queried_Reseed(p, disk) ==
    WithDb(Provider_query(p, disk), p, disk, AWS_create_cache_Reseed(ConnDb(p, disk)))

\* Provider::query with what it leaves: query takes &self and issues a
\* SELECT only, so the provider and its database are as before.
Queried(p, disk) == Polled(Provider_query(p, disk), p, disk)

\* Whether poll calls the remote source.
ContactsRemote(p) == p.kind \in {"aws", "param_store"}

\* ------------------------------------------------------------------ hooks
\* What the surroundings make of one hook's run: "ok"; "malformed": the
\* payload is not of the template's source_type; "nocreate": the output file
\* cannot be created; "writefail": writing the file or the child's stdin
\* fails; "nospawn": /bin/bash cannot be started; "nonzero": the command's
\* exit status is not zero; "keyerr": the call of the helper `key` to the
\* parameter store fails; "keynone": the parameter store answers without
\* the parameter's value; "printfail": stdout cannot be written (it is
\* closed, or its device is full); "blocked": the payload does not fit the
\* pipe to the child's stdin and the child, before it has read it all,
\* writes more than fits the pipe from its stdout.
Applicable(hook) ==
    IF hook.kind = "template"
    THEN {"ok", "malformed"}
            \cup (IF hook.out_file THEN {"nocreate", "writefail"} ELSE {"printfail"})
            \cup (IF hook.helper THEN {"keyerr", "keynone"} ELSE {})
    ELSE IF hook.kind = "file" THEN {"ok", "nocreate", "writefail"}
    ELSE IF hook.kind = "command"
         THEN {"ok", "nonzero", "nospawn"}
                \cup (IF hook.pipe_data THEN {"writefail", "blocked"} ELSE {})
         ELSE {"ok", "printfail"}

\* How a hook's run ends: "ok" (Ok(())), "err" (an Err returned to the
\* caller), "exit" (std::process::exit with the code), "panic", or
\* "blocked": run() never returns and the process never ends, so that there
\* is no exit status (code -1).
Ran(how, code) == [how |-> how, code |-> code]

\* Template::run that prints or writes nothing for a payload it cannot
\* deserialize, and returns Ok(()).
Template_run_SkipMalformed(hook, data, outcome) ==
    IF outcome = "malformed" THEN Ran("ok", EXIT_OK)
    ELSE IF outcome = "keyerr" THEN Ran("exit", EXIT_UNAVAILABLE)
    ELSE IF outcome = "keynone" THEN Ran("panic", EXIT_PANIC)
    ELSE IF outcome = "nocreate" THEN Ran("exit", EXIT_OSFILE)
    ELSE IF outcome = "writefail" THEN Ran("err", EXIT_FAILURE)
    ELSE IF outcome = "printfail" THEN Ran("panic", EXIT_PANIC)
    ELSE Ran("ok", EXIT_OK)

\* Whether the hook's run calls a remote source: the helper `key` of a
\* template calls get_params while the template is rendered, after the
\* payload has been deserialized.
HookContacts(hook, outcome) ==
    hook.kind = "template" /\ hook.helper /\ outcome # "malformed"

\* Template::run, with render, transform and key_helper.  A failed call of
\* get_params ends the process inside it; its Err (no value) becomes a
\* RenderError, on which render's unwrap panics.  Without out_file the
\* rendered text goes to print!, which panics when stdout cannot be written.
Template_run(hook, data, outcome) ==
    IF outcome = "malformed" THEN Ran("panic", EXIT_PANIC)
    ELSE IF outcome = "keyerr" THEN Ran("exit", EXIT_UNAVAILABLE)
    ELSE IF outcome = "keynone" THEN Ran("panic", EXIT_PANIC)
    ELSE IF outcome = "nocreate" THEN Ran("exit", EXIT_OSFILE)
    ELSE IF outcome = "writefail" THEN Ran("err", EXIT_FAILURE)
    ELSE IF outcome = "printfail" THEN Ran("panic", EXIT_PANIC)
    ELSE Ran("ok", EXIT_OK)

\* File::run
File_run(hook, data, outcome) ==
    IF outcome = "nocreate" THEN Ran("exit", EXIT_OSFILE)
    ELSE IF outcome = "writefail" THEN Ran("err", EXIT_FAILURE)
    ELSE Ran("ok", EXIT_OK)

\* Raw::run: println! of the payload, which panics when stdout cannot be
\* written.
Raw_run(hook, data, outcome) ==
    IF outcome = "printfail" THEN Ran("panic", EXIT_PANIC)
    ELSE Ran("ok", EXIT_OK)

\* Command::run.  With pipe_data the child's stdin and stdout are both
\* pipes, the whole payload is written before the child's stdout is read,
\* and run() stays in write_all for good when the child stops reading
\* because no one reads what it writes (SpecPipe has the steps).
Command_run(hook, data, outcome) ==
    IF ~hook.pipe_data
    THEN IF outcome = "nospawn" THEN Ran("err", EXIT_FAILURE)
         ELSE IF outcome = "nonzero" THEN Ran("exit", EXIT_SOFTWARE)
         ELSE Ran("ok", EXIT_OK)
    ELSE IF outcome = "nospawn" THEN Ran("panic", EXIT_PANIC)
         ELSE IF outcome = "writefail" THEN Ran("err", EXIT_FAILURE)
         ELSE IF outcome = "blocked" THEN Ran("blocked", -1)
         ELSE IF outcome = "nonzero" THEN Ran("exit", EXIT_SOFTWARE)
         ELSE Ran("ok", EXIT_OK)

\* Hook::run on the trait object.
Hook_run(hook, data, outcome) ==
    IF hook.kind = "template" THEN Template_run(hook, data, outcome)
    ELSE IF hook.kind = "file" THEN File_run(hook, data, outcome)
    ELSE IF hook.kind = "raw" THEN Raw_run(hook, data, outcome)
    ELSE Command_run(hook, data, outcome)

\* ------------------------------------------------------------------- main
\* An invocation of the binary: cmd; how it ended ("ok", "exit", "err",
\* "panic"; "blocked" when it never ends) and its exit code; whether a remote source was called (by poll,
\* or by the helper `key` of a template hook) and whether poll's source
\* answered with a version and content; what poll gave ("Some" /
\* "None") and the payload (for a query: the payload printed); the hooks
\* that were called, in order; the effects of the hooks that returned Ok, in
\* order (what each wrote: the hook and the payload it was given).
\* 'outcomes' is what the surroundings made of each hook that was called.
\* 'kept' tells whether poll left the cache (the state file, or the
\* in-memory database) as the constructor had left it.
\* 'again' compares the identity this poll observed with the one the latest
\* earlier poll that succeeded observed: "no" when it differs or there is
\* none, "seen" when it is the same, "saved" when it is the same and the cache
\* held it when that earlier poll returned.
NoLast ==
    [cmd |-> "none", how |-> "none", code |-> EXIT_OK, contacted |-> FALSE,
     fetched |-> FALSE, polled |-> "none", data |-> "", ran |-> <<>>, effects |-> <<>>,
     outcomes |-> <<>>, kept |-> TRUE, again |-> "no"]

\* The loop over config.hooks that notes a hook's failure and goes on with
\* the hooks after it.
RECURSIVE RunHooks_KeepGoing(_, _, _, _, _)
RunHooks_KeepGoing(i, hooks, data, outs, acc) ==
    IF i > Len(hooks)
    THEN acc
    ELSE IF Hook_run(hooks[i], data, outs[i]).how = "ok"
         THEN RunHooks_KeepGoing(i + 1, hooks, data, outs,
                       [acc EXCEPT !.ran = Append(@, hooks[i].kind),
                                   !.outcomes = Append(@, outs[i]),
                                   !.helped = @ \/ HookContacts(hooks[i], outs[i]),
                                   !.effects = Append(@, [hook |-> hooks[i].kind,
                                                          payload |-> data])])
         ELSE RunHooks_KeepGoing(i + 1, hooks, data, outs,
                       [acc EXCEPT !.ran = Append(@, hooks[i].kind),
                                   !.outcomes = Append(@, outs[i]),
                                   !.helped = @ \/ HookContacts(hooks[i], outs[i]),
                                   !.how = Hook_run(hooks[i], data, outs[i]).how,
                                   !.code = Hook_run(hooks[i], data, outs[i]).code])

\* The loop over config.hooks in check_for_updates, from hook i on.
\* outs[i] is what the surroundings make of hook i.
RECURSIVE RunHooks(_, _, _, _, _)
RunHooks(i, hooks, data, outs, acc) ==
    IF i > Len(hooks)
    THEN acc
    ELSE IF Hook_run(hooks[i], data, outs[i]).how = "ok"
         THEN RunHooks(i + 1, hooks, data, outs,
                       [acc EXCEPT !.ran = Append(@, hooks[i].kind),
                                   !.outcomes = Append(@, outs[i]),
                                   !.helped = @ \/ HookContacts(hooks[i], outs[i]),
                                   !.effects = Append(@, [hook |-> hooks[i].kind,
                                                          payload |-> data])])
         ELSE [acc EXCEPT !.ran = Append(@, hooks[i].kind),
                          !.outcomes = Append(@, outs[i]),
                          !.helped = @ \/ HookContacts(hooks[i], outs[i]),
                          !.how = Hook_run(hooks[i], data, outs[i]).how,
                          !.code = Hook_run(hooks[i], data, outs[i]).code]

\* The Config struct of a load, without the state file.
ConfigOf(cfg) ==
    [status |-> cfg.status, code |-> cfg.code, provider |-> cfg.provider, hooks |-> cfg.hooks]

Invocation(cfg, d, l) == [config |-> ConfigOf(cfg), disk |-> d, last |-> l]

\* check_for_updates that keeps what poll wrote to the state file only when
\* every hook returned Ok.
CheckHooks_SaveAfterHooks(cfg, p, asked, h) ==
    Invocation(cfg, IF h.how = "ok" THEN p.disk ELSE cfg.disk,
               [asked EXCEPT !.polled = "Some", !.data = p.ret.data,
                             !.how = h.how, !.code = h.code,
                             !.ran = h.ran, !.effects = h.effects, !.outcomes = h.outcomes,
                             !.contacted = @ \/ h.helped])

\* check_for_updates, after poll returned Some(data): the loop over the hooks.
CheckHooks(cfg, p, asked, h) ==
    Invocation(cfg, p.disk,
               [asked EXCEPT !.polled = "Some", !.data = p.ret.data,
                             !.how = h.how, !.code = h.code,
                             !.ran = h.ran, !.effects = h.effects, !.outcomes = h.outcomes,
                             !.contacted = @ \/ h.helped])

\* check_for_updates that runs the hooks on the empty string when poll
\* returned None.
CheckPolled_AlwaysRuns(cfg, p, asked, outs) ==
    IF p.ret.kind \in {"Some", "None"}
    THEN [CheckHooks(cfg, p, asked,
                     RunHooks(1, cfg.hooks, p.ret.data, outs,
                              [how |-> "ok", code |-> EXIT_OK, ran |-> <<>>,
                               effects |-> <<>>, outcomes |-> <<>>, helped |-> FALSE]))
             EXCEPT !.last.polled = p.ret.kind]
    ELSE IF p.ret.kind = "Err"
    THEN Invocation(cfg, p.disk, [asked EXCEPT !.how = "err", !.code = EXIT_FAILURE])
    ELSE Invocation(cfg, p.disk, [asked EXCEPT !.how = p.ret.kind, !.code = p.ret.code])

\* check_for_updates, from the value of config.provider.poll() on.
CheckPolled(cfg, p, asked, outs) ==
    IF p.ret.kind = "Some"
    THEN CheckHooks(cfg, p, asked,
                    RunHooks(1, cfg.hooks, p.ret.data, outs,
                             [how |-> "ok", code |-> EXIT_OK, ran |-> <<>>, effects |-> <<>>,
                              outcomes |-> <<>>, helped |-> FALSE]))
    ELSE IF p.ret.kind = "None"
    THEN Invocation(cfg, p.disk, [asked EXCEPT !.polled = "None", !.how = "ok"])
    ELSE IF p.ret.kind = "Err"
    THEN Invocation(cfg, p.disk, [asked EXCEPT !.how = "err", !.code = EXIT_FAILURE])
    ELSE Invocation(cfg, p.disk, [asked EXCEPT !.how = p.ret.kind, !.code = p.ret.code])

\* The invocation's record once poll has returned p.
Asked(cfg, p) ==
    [NoLast EXCEPT !.cmd = "check",
                   !.contacted = ContactsRemote(cfg.provider),
                   !.fetched = ContactsRemote(cfg.provider) /\ p.ret.kind \in {"Some", "None"},
                   !.kept = (p.disk = cfg.disk /\ p.provider.mem = cfg.provider.mem)]

\* check_for_updates, from the Config that Config::from_file gave on.
CheckLoaded(cfg, outs, p) ==
    IF cfg.status # "ok"
    THEN Invocation(cfg, cfg.disk,
                    [NoLast EXCEPT !.cmd = "check", !.how = cfg.status, !.code = cfg.code])
    ELSE CheckPolled(cfg, p, Asked(cfg, p), outs)

\* check_for_updates: the whole 'check' invocation.
check_for_updates(document, d, rem, respKind, writeOk, outs) ==
    LET cfg == from_file(document, d)
    IN  CheckLoaded(cfg, outs,
                    Provider_poll(cfg.provider, cfg.disk, Response(respKind, rem), writeOk))

\* query_data, from the Config that Config::from_file gave on.  printOk
\* tells whether stdout can be written: println! panics when it cannot, and
\* nothing is printed.
QueryLoaded(cfg, q, printOk) ==
    IF cfg.status # "ok"
    THEN Invocation(cfg, cfg.disk,
                    [NoLast EXCEPT !.cmd = "query", !.how = cfg.status, !.code = cfg.code])
    ELSE IF q.kind = "Ok"
         THEN IF printOk
              THEN Invocation(cfg, cfg.disk,
                              [NoLast EXCEPT !.cmd = "query", !.how = "ok", !.data = q.data])
              ELSE Invocation(cfg, cfg.disk,
                              [NoLast EXCEPT !.cmd = "query", !.how = "panic",
                                             !.code = EXIT_PANIC])
         ELSE Invocation(cfg, cfg.disk,
                         [NoLast EXCEPT !.cmd = "query", !.how = "err", !.code = EXIT_FAILURE])

\* query_data: the whole 'query' invocation.
query_data(document, d, printOk) ==
    LET cfg == from_file(document, d)
    IN  QueryLoaded(cfg, Provider_query(cfg.provider, cfg.disk), printOk)

\* ---------------------------------------------------------------- variables
VARIABLES
    doc,      \* the configuration document the invocations are given
    config,   \* what the last Config::from_file gave
    disk,     \* the state file (a sqlite database), kept between invocations
    remote,   \* the remote source: its configuration version and content
    last,     \* the last invocation of the binary: what it did and how it ended
    seen,     \* what the latest poll that succeeded observed at its source
    prov,     \* SpecProvider: the live Provider object
    ret,      \* SpecProvider: what the last call on prov returned
    pipe      \* SpecPipe: a piped Command::run, its child and the two pipes

vars == <<doc, config, disk, remote, last, seen, prov, ret, pipe>>

\* No piped command is running.
NoPipe ==
    [pc |-> "none", left |-> 0, stdin |-> 0, open |-> FALSE,
     child |-> "none", cpc |-> "none", hold |-> 0, out |-> 0, stdout |-> 0]

NotLoaded == [status |-> "none", code |-> EXIT_OK, provider |-> NoProvider, hooks |-> <<>>]

\* Nothing observed yet.  'saved' tells whether the cache held the observed
\* identity when that poll returned.
NotSeen == [valid |-> FALSE, version |-> 0, data |-> "", saved |-> FALSE]

\* A call on the Provider object: the operation, the kind of provider it was
\* made on, and what it returned.  For a poll: 'same' tells whether the cached
\* identity equalled the remote identity when it was called, 'intact' whether
\* it left the cached snapshot as it was, 'wrote' whether the cache's UPDATE
\* could succeed.  'changed' is set when the remote source changes after the
\* call.  'before' is the call made on the object just before this one.
\* 'tick' flips with every call, so that a call is told from a step in which
\* no code of the provider runs.
NoCall ==
    [op |-> "none", kind |-> "none", data |-> "", wrote |-> FALSE, changed |-> FALSE]

NoRet ==
    [op |-> "none", of |-> "none", kind |-> "none", data |-> "", code |-> EXIT_OK,
     same |-> FALSE, intact |-> TRUE, wrote |-> FALSE, changed |-> FALSE,
     before |-> NoCall, tick |-> FALSE]

CallOf(r) ==
    [op |-> r.op, kind |-> r.kind, data |-> r.data, wrote |-> r.wrote, changed |-> r.changed]

Remotes == [version : Versions, data : Payloads]

\* The identity a provider of this kind compares: the version token (aws),
\* the value (param_store, and the mock's fixed data).
SameIdentity(kind, a, b) ==
    IF kind = "aws" THEN a.version = b.version ELSE a.data = b.data

\* The identity a poll that succeeded observed: the version of the remote
\* source (aws), its value (param_store), or the mock's data.
Observed(p, rem, saved) ==
    [valid |-> TRUE,
     version |-> IF p.kind = "aws" THEN rem.version ELSE 0,
     data |-> IF p.kind = "aws" THEN "" ELSE IF p.kind = "mock" THEN p.data ELSE rem.data,
     saved |-> saved]

Again(p, before, now) ==
    IF before.valid /\ SameIdentity(p.kind, before, now)
    THEN (IF before.saved THEN "saved" ELSE "seen")
    ELSE "no"

\* The remote source publishes another version or other content.
RemoteChange ==
    /\ remote' \in Remotes \ {remote}
    /\ UNCHANGED <<doc, config, disk, last, seen, prov, ret, pipe>>

\* Config::from_file on the document.
FromFile ==
    /\ \E cfg \in {from_file(doc, disk)} :
           /\ config' = ConfigOf(cfg)
           /\ disk' = cfg.disk
    /\ UNCHANGED <<doc, remote, last, seen, prov, ret, pipe>>

\* app_config check -f FILE
CheckForUpdates ==
    \E cfg \in {from_file(doc, disk)} :
        \E respKind \in RespKinds(cfg.provider.kind) :
        \E writeOk \in (IF respKind = "ok" THEN BOOLEAN ELSE {TRUE}),
           k \in (IF respKind = "ok" THEN 0..Len(cfg.hooks) ELSE {0}) :
        \E o \in (IF k = 0 THEN {"ok"} ELSE Applicable(cfg.hooks[k]) \ {"ok"}) :
        \E outs \in {[i \in 1..Len(cfg.hooks) |-> IF i = k THEN o ELSE "ok"]} :
        \E r \in {check_for_updates(doc, disk, remote, respKind, writeOk, outs)} :
        \E now \in {Observed(r.config.provider, remote, r.last.polled = "None" \/ writeOk)} :
            /\ config' = r.config
            /\ disk' = r.disk
            /\ IF r.last.polled \in {"Some", "None"}
               THEN /\ seen' = now
                    /\ last' = [r.last EXCEPT !.again = Again(r.config.provider, seen, now)]
               ELSE /\ seen' = seen
                    /\ last' = r.last
            /\ UNCHANGED <<doc, remote, prov, ret, pipe>>

\* app_config query -f FILE
QueryData ==
    \E printOk \in BOOLEAN :
    \E r \in {query_data(doc, disk, printOk)} :
        /\ config' = r.config
        /\ disk' = r.disk
        /\ last' = r.last
        /\ UNCHANGED <<doc, remote, seen, prov, ret, pipe>>

\* ---------------------------------------------------------------- SpecOnce
\* One call on a document, in fresh surroundings: no state file yet, the
\* remote source at some version.
InitOnce ==
    /\ IsDoc(doc, MaxHooks)
    /\ config = NotLoaded
    /\ disk \in StateFiles(doc.state_file)
    /\ remote = [version |-> 1, data |-> "a"]
    /\ last = NoLast
    /\ seen = NotSeen
    /\ prov = NoProvider
    /\ ret = NoRet
    /\ pipe = NoPipe

Fresh == config.status = "none" /\ last.cmd = "none"

NextOnce ==
    \/ Fresh /\ FromFile
    \/ Fresh /\ CheckForUpdates
    \/ Fresh /\ QueryData

SpecOnce == InitOnce /\ [][NextOnce]_vars

\* ------------------------------------------------------------ SpecProvider
\* A Provider object on its own: built by its Conf's convert(), polled and
\* queried any number of times, dropped when its process ends.
InitProvider ==
    /\ \E kind \in {"mock", "aws", "param_store"} :
       \E state_file \in (IF kind = "mock" THEN {FALSE} ELSE BOOLEAN) :
       \E data \in (IF kind = "mock" THEN {"a", "b"} ELSE {"a"}) :
          doc = MakeDoc("ok", TRUE, <<kind>>, FALSE, <<>>, {}, state_file, data, FALSE, TRUE)
    /\ config = NotLoaded
    /\ disk \in StateFiles(doc.state_file)
    /\ remote \in Remotes
    /\ last = NoLast
    /\ seen = NotSeen
    /\ prov = NoProvider
    /\ ret = NoRet
    /\ pipe = NoPipe

\* Whether the cached identity of p equals the identity of the remote source.
CachedSame(p, d, rem) ==
    IF p.kind = "aws" THEN ConnDb(p, d).appConfig.version = rem.version
    ELSE IF p.kind = "param_store" THEN ConnDb(p, d).param_store.data = rem.data
    ELSE FALSE

\* MockConf / AWSConf / ParamStoreConf ::convert on the settings of the
\* document's provider section.
Convert(section, document, d) ==
    IF section = "param_store"
    THEN ParamStore_new(document.state_file, d)
    ELSE ProviderConvert(section, document, d)

\* A process builds its Provider.
ProviderNew ==
    /\ prov.kind = "none"
    /\ \E made \in {Convert(doc.providers.keys[1], doc, disk)} :
           /\ prov' = made.provider
           /\ disk' = made.disk
           /\ ret' = [NoRet EXCEPT !.op = "new", !.of = doc.providers.keys[1],
                                   !.kind = IF made.code = EXIT_OK THEN "none" ELSE "exit",
                                   !.code = made.code, !.tick = ~ret.tick]
    /\ UNCHANGED <<doc, config, remote, last, seen, pipe>>

\* Provider::poll.  A poll that ends the process ends the object with it.
ProviderPoll ==
    /\ prov.kind # "none"
    /\ \E respKind \in RespKinds(prov.kind) :
       \E writeOk \in (IF respKind = "ok" THEN BOOLEAN ELSE {TRUE}) :
       \E p \in {Provider_poll(prov, disk, Response(respKind, remote), writeOk)} :
           /\ prov' = IF p.ret.kind \in {"exit", "panic"} THEN NoProvider ELSE p.provider
           /\ disk' = p.disk
           /\ ret' = [op |-> "poll", of |-> prov.kind, kind |-> p.ret.kind,
                      data |-> p.ret.data, code |-> p.ret.code,
                      same |-> CachedSame(prov, disk, remote),
                      intact |-> ConnDb(p.provider, p.disk) = ConnDb(prov, disk),
                      wrote |-> writeOk, changed |-> FALSE, before |-> CallOf(ret),
                      tick |-> ~ret.tick]
    /\ UNCHANGED <<doc, config, remote, last, seen, pipe>>

\* Provider::query
ProviderQuery ==
    /\ prov.kind # "none"
    /\ \E q \in {Queried(prov, disk)} :
           /\ prov' = q.provider
           /\ disk' = q.disk
           /\ ret' = [op |-> "query", of |-> prov.kind, kind |-> q.ret.kind,
                      data |-> q.ret.data, code |-> q.ret.code, same |-> FALSE,
                      intact |-> (q.provider = prov /\ q.disk = disk),
                      wrote |-> FALSE, changed |-> FALSE, before |-> CallOf(ret),
                      tick |-> ~ret.tick]
    /\ UNCHANGED <<doc, config, remote, last, seen, pipe>>

\* The process ends: the object and its in-memory database are gone.
ProviderDrop ==
    /\ prov.kind # "none"
    /\ prov' = NoProvider
    /\ ret' = [NoRet EXCEPT !.tick = ~ret.tick]
    /\ UNCHANGED <<doc, config, disk, remote, last, seen, pipe>>

\* The remote source publishes another version or other content.
ProviderRemoteChange ==
    /\ remote' \in Remotes \ {remote}
    /\ ret' = [ret EXCEPT !.changed = TRUE]
    /\ UNCHANGED <<doc, config, disk, last, seen, prov, pipe>>

NextProvider ==
    \/ ProviderNew
    \/ ProviderPoll
    \/ ProviderQuery
    \/ ProviderDrop
    \/ ProviderRemoteChange

SpecProvider == InitProvider /\ [][NextProvider]_vars

\* -------------------------------------------------------------------- Spec
\* Invocations of the binary, one after the other, on one document, one
\* state file path and one remote source.  The documents are those whose
\* sections all deserialize and whose hooks are file and command hooks
\* (SpecOnce has the others: what an invocation does with the document does
\* not depend on the invocations before it).
CheckHookNames == {"file", "command"}

Init ==
    /\ IsDoc(doc, MaxCheckHooks)
    /\ doc.invalid = {}
    /\ Range(doc.hooks.keys) \subseteq CheckHookNames
    /\ config = NotLoaded
    /\ disk \in StateFiles(doc.state_file)
    /\ remote \in Remotes
    /\ last = NoLast
    /\ seen = NotSeen
    /\ prov = NoProvider
    /\ ret = NoRet
    /\ pipe = NoPipe

Next ==
    \/ CheckForUpdates
    \/ QueryData
    \/ RemoteChange

Spec == Init /\ [][Next]_vars

\* ---------------------------------------------------------------- SpecPipe
\* Command::run with pipe_data = true, step by step, next to the child it
\* spawned with stdin and stdout piped.  The payload and the child's output
\* are counted in chunks; a pipe holds PipeCap chunks.
\*   pc     where run() is: "write_all" (stdin.write_all(data)),
\*          "wait_with_output" (stdin dropped; reading the child's stdout to
\*          its end, then waiting for the child), "returned"
\*   left   chunks of the payload not yet written to the child's stdin
\*   stdin, stdout   chunks held by the two pipes
\*   open   the parent still holds the write end of the child's stdin
\*   child  what the command does with its input
\*   cpc    where the child is: "reading", "writing" (after end of input),
\*          "exited"
\*   hold   chunks the child has in hand to write to its stdout
\*   out    chunks a child of kind "slurp" writes after the end of its input
\* The children: "sink" reads its input to the end and writes nothing to its
\* stdout (cat > file); "filter" writes each chunk it reads to its stdout
\* before it reads the next (cat); "slurp" reads its input to the end and
\* writes its output then (sort, wc).  Each reads all its input and exits
\* with status 0.
ChildKinds == {"sink", "filter", "slurp"}

\* The largest payload and the largest output: one chunk more than the two
\* pipes and the child's hand hold together.
MaxChunks == 2 * PipeCap + 2

\* The state after spawn() returned the child.
InitPipe ==
    /\ doc = DefaultDoc
    /\ config = NotLoaded
    /\ disk = NoDb
    /\ remote = [version |-> 1, data |-> "a"]
    /\ last = NoLast
    /\ seen = NotSeen
    /\ prov = NoProvider
    /\ ret = NoRet
    /\ \E n \in 0..MaxChunks, kind \in ChildKinds :
       \E m \in (IF kind = "slurp" THEN 0..MaxChunks ELSE {0}) :
          pipe = [pc |-> "write_all", left |-> n, stdin |-> 0, open |-> TRUE,
                  child |-> kind, cpc |-> "reading", hold |-> 0, out |-> m,
                  stdout |-> 0]

\* stdin.write_all(data.as_bytes()): one more chunk goes into the pipe, when
\* the pipe has room for it.
ParentWrite ==
    /\ pipe.pc = "write_all" /\ pipe.left > 0 /\ pipe.stdin < PipeCap
    /\ pipe' = [pipe EXCEPT !.left = @ - 1, !.stdin = @ + 1]
    /\ UNCHANGED <<doc, config, disk, remote, last, seen, prov, ret>>

\* write_all has returned; wait_with_output drops the child's stdin.
ParentClose ==
    /\ pipe.pc = "write_all" /\ pipe.left = 0
    /\ pipe' = [pipe EXCEPT !.pc = "wait_with_output", !.open = FALSE]
    /\ UNCHANGED <<doc, config, disk, remote, last, seen, prov, ret>>

\* wait_with_output reads the child's stdout.
ParentRead ==
    /\ pipe.pc = "wait_with_output" /\ pipe.stdout > 0
    /\ pipe' = [pipe EXCEPT !.stdout = @ - 1]
    /\ UNCHANGED <<doc, config, disk, remote, last, seen, prov, ret>>

\* The child's stdout is at its end and the child has exited with status 0:
\* wait_with_output returns, and run() returns Ok(()).
ParentReturn ==
    /\ pipe.pc = "wait_with_output" /\ pipe.stdout = 0 /\ pipe.cpc = "exited"
    /\ pipe' = [pipe EXCEPT !.pc = "returned"]
    /\ UNCHANGED <<doc, config, disk, remote, last, seen, prov, ret>>

\* The child reads a chunk of its input.
ChildRead ==
    /\ pipe.cpc = "reading" /\ pipe.hold = 0 /\ pipe.stdin > 0
    /\ pipe' = [pipe EXCEPT !.stdin = @ - 1,
                            !.hold = IF pipe.child = "filter" THEN 1 ELSE 0]
    /\ UNCHANGED <<doc, config, disk, remote, last, seen, prov, ret>>

\* The child writes a chunk to its stdout, when the pipe has room for it.
ChildWrite ==
    /\ pipe.cpc \in {"reading", "writing"} /\ pipe.hold > 0 /\ pipe.stdout < PipeCap
    /\ pipe' = [pipe EXCEPT !.hold = @ - 1, !.stdout = @ + 1]
    /\ UNCHANGED <<doc, config, disk, remote, last, seen, prov, ret>>

\* The child reads the end of its input: the pipe is empty and its write end
\* is closed.
ChildEof ==
    /\ pipe.cpc = "reading" /\ pipe.hold = 0 /\ pipe.stdin = 0 /\ ~pipe.open
    /\ pipe' = [pipe EXCEPT !.cpc = "writing",
                            !.hold = IF pipe.child = "slurp" THEN pipe.out ELSE 0]
    /\ UNCHANGED <<doc, config, disk, remote, last, seen, prov, ret>>

\* The child has written all it had and exits with status 0.
ChildExit ==
    /\ pipe.cpc = "writing" /\ pipe.hold = 0
    /\ pipe' = [pipe EXCEPT !.cpc = "exited"]
    /\ UNCHANGED <<doc, config, disk, remote, last, seen, prov, ret>>

ParentStep == ParentWrite \/ ParentClose \/ ParentRead \/ ParentReturn

ChildStep == ChildRead \/ ChildWrite \/ ChildEof \/ ChildExit

NextPipe ==
    \/ ParentWrite
    \/ ParentClose
    \/ ParentRead
    \/ ParentReturn
    \/ ChildRead
    \/ ChildWrite
    \/ ChildEof
    \/ ChildExit

\* The operating system lets each of the two processes run when it can.
SpecPipe == InitPipe /\ [][NextPipe]_vars /\ WF_vars(ParentStep) /\ WF_vars(ChildStep)

\* =================================================================== claims
\* The kinds of the hooks of a list, in list order.
KindsOf(hooks) == [i \in 1..Len(hooks) |-> hooks[i].kind]

\* The effects of the first n hooks of a list on a payload.
EffectsOf(hooks, n, data) == [i \in 1..n |-> [hook |-> hooks[i].kind, payload |-> data]]

\* An invocation or a load has taken place.
Invoked == config.status # "none" \/ last.cmd # "none"

\* ----------------------------------------------------------------------- C1
\* C1 (as the spec states it): a 'check' whose poll observes the remote
\* identity that the previous successful poll observed runs no hook,
\* whatever the provider and whether or not a state_file is configured.
C1_NeverRerunsForSeenIdentity ==
    (last.cmd = "check" /\ last.again # "no") => last.ran = <<>>

\* C1 (amended): with a provider that keeps its cache in a configured
\* state_file, a 'check' whose poll observes the remote identity that the
\* previous successful poll observed, and that the cache held when that poll
\* returned, gets no payload and runs no hook.
C1_NoRerunWithStateFile ==
    (last.cmd = "check" /\ last.again = "saved" /\ config.provider.state_file) =>
        /\ last.polled = "None"
        /\ last.ran = <<>>
        /\ last.how = "ok"

\* C1 witness: an aws provider with a state file and a hook; the remote
\* source is at a version other than the seed's, an earlier 'check' has
\* processed it, and this 'check' fetches it again and runs nothing.
C1_Witness ==
    /\ last.cmd = "check" /\ last.again = "saved"
    /\ config.provider.kind = "aws" /\ config.provider.state_file
    /\ Len(config.hooks) = 1
    /\ remote.version # 0
    /\ last.fetched /\ last.polled = "None" /\ last.ran = <<>>

\* ----------------------------------------------------------------------- C2
\* C2 (as the spec states it): a poll() made while the cached identity
\* equals the remote identity returns no payload and leaves the cached
\* snapshot as it was.
C2_NoChangeNoPayload ==
    (ret.op = "poll" /\ ret.of \in {"aws", "param_store"} /\ ret.same) =>
        /\ ret.kind # "Some"
        /\ ret.intact

\* ----------------------------------------------------------------------- C3
\* C3 (as the spec states it): after a poll() that returned the new payload
\* and saved it, a second poll() on the same provider, the remote source not
\* having changed in between, returns no payload.
C3_PayloadExactlyOnce ==
    (ret.op = "poll" /\ ret.of \in {"aws", "param_store"}
       /\ ret.before.op = "poll" /\ ret.before.kind = "Some"
       /\ ret.before.wrote /\ ~ret.before.changed) =>
        ret.kind # "Some"

\* ----------------------------------------------------------------------- C4
\* C4 (as the spec states it): a query() made right after a poll() that
\* returned a payload returns that payload, for every provider.
C4_QueryAfterPoll ==
    (ret.op = "query" /\ ret.before.op = "poll" /\ ret.before.kind = "Some") =>
        /\ ret.kind = "Ok"
        /\ ret.data = ret.before.data

\* C4 (amended): a query() made right after a poll() that returned a
\* payload returns that payload, provided the poll's write of the cached
\* snapshot did not fail (the aws provider returns the payload also when the
\* write failed, and the query then gives the snapshot of before).
C4_QueryAfterSavedPoll ==
    (ret.op = "query" /\ ret.before.op = "poll" /\ ret.before.kind = "Some"
       /\ (ret.of = "aws" => ret.before.wrote)) =>
        /\ ret.kind = "Ok"
        /\ ret.data = ret.before.data

\* C4 witness: an aws provider polled a change with content "b", saved it,
\* and the query after it gives "b".
C4_Witness ==
    /\ ret.op = "query" /\ ret.of = "aws"
    /\ ret.before.op = "poll" /\ ret.before.kind = "Some" /\ ret.before.wrote
    /\ ret.before.data = "b"
    /\ ret.kind = "Ok" /\ ret.data = "b"

\* ----------------------------------------------------------------------- C5
\* C5: when a hook fails at position k of the n hooks of a 'check' whose poll
\* returned a payload, the hooks called are exactly hooks 1..k (none of
\* k+1..n), and the effects of hooks 1..k-1 on the payload have happened;
\* this for an error return, a process exit inside the hook and a panic, and
\* also for a hook that never returns.
C5_FailureStopsLaterHooks ==
    (last.cmd = "check" /\ last.polled = "Some" /\ last.how # "ok") =>
        /\ last.how \in {"err", "exit", "panic", "blocked"}
        /\ \E k \in 1..Len(config.hooks) :
              /\ last.ran = SubSeq(KindsOf(config.hooks), 1, k)
              /\ last.effects = EffectsOf(config.hooks, k - 1, last.data)

\* C5 witness: the second of three hooks panics; the first has taken effect,
\* the third was not called.
C5_Witness ==
    /\ last.cmd = "check" /\ last.polled = "Some" /\ last.how = "panic"
    /\ Len(config.hooks) = 3
    /\ Len(last.ran) = 2
    /\ Len(last.effects) = 1

\* ----------------------------------------------------------------------- C6
\* C6: for a document whose hook sections are all of the types template,
\* file, raw, command (any number, any order), the factory's hook list has
\* the sections' order in the document, and a 'check' in which no hook fails
\* calls them in that order.
C6_HookOrderIsDocumentOrder ==
    (doc.hooks.present /\ Range(doc.hooks.keys) \subseteq Range(HookArms)) =>
        /\ config.status = "ok" => KindsOf(config.hooks) = doc.hooks.keys
        /\ (last.cmd = "check" /\ last.polled = "Some" /\ last.how = "ok")
              => last.ran = doc.hooks.keys

\* C6 witness: four hook sections declared in an order that is neither the
\* macro's nor the alphabet's, loaded and run.
C6_Witness ==
    /\ doc.hooks.keys = <<"raw", "command", "template", "file">>
    /\ config.status = "ok"
    /\ last.cmd = "check" /\ last.how = "ok"
    /\ last.ran = <<"raw", "command", "template", "file">>

\* ----------------------------------------------------------------------- C7
\* C7: the factory gives a Config only for a document whose 'providers'
\* section holds exactly one entry; with the section missing, or a table
\* that is empty or holds two or more entries, the load ends the process
\* with the configuration-error status; and whenever 'providers' is not a
\* table of one entry no provider is built, no remote source is called and
\* no hook is run.
C7_ExactlyOneProvider ==
    /\ config.status = "ok" =>
          (doc.providers.present /\ doc.providers.table /\ Len(doc.providers.keys) = 1)
    /\ (Invoked /\ doc.file = "ok"
          /\ (~doc.providers.present
                \/ (doc.providers.table /\ Len(doc.providers.keys) # 1))) =>
            /\ config.status = "exit" /\ config.code = EXIT_CONFIG
            /\ last.cmd # "none" => (last.how = "exit" /\ last.code = EXIT_CONFIG)
    /\ (Invoked /\ doc.file = "ok"
          /\ (~doc.providers.present \/ Len(doc.providers.keys) # 1)) =>
            /\ config.status \in {"exit", "panic"}
            /\ config.provider = NoProvider
            /\ ~last.contacted /\ last.polled = "none" /\ last.ran = <<>>
            /\ last.cmd # "none" => last.how = config.status

\* C7 witness: a 'check' on a document with two recognised provider sections
\* and a hook section.
C7_Witness ==
    /\ last.cmd = "check"
    /\ doc.providers.keys = <<"aws", "mock">>
    /\ doc.hooks.keys = <<"raw">>
    /\ doc.invalid = {}
    /\ last.code = EXIT_CONFIG

\* ----------------------------------------------------------------------- C8
\* C8 (as the spec states it): a document with exactly one provider section,
\* of one of the variants mock, aws, param_store, whose sections all
\* deserialize, gives a Provider of that variant.
C8_EveryVariantIsBuilt ==
    (config.status # "none" /\ doc.file = "ok" /\ doc.invalid = {} /\ doc.tpl
       /\ doc.providers.present /\ Len(doc.providers.keys) = 1
       /\ doc.providers.keys[1] \in {"mock", "aws", "param_store"}) =>
        /\ config.status = "ok"
        /\ config.provider.kind = doc.providers.keys[1]

\* ----------------------------------------------------------------------- C9
\* C9: with a single provider section whose name is none of those the
\* factory dispatches on, the load ends the process with the
\* configuration-error status: no Provider is returned and no poll is made.
C9_UnknownProviderIsFatal ==
    (Invoked /\ doc.file = "ok" /\ doc.providers.present
       /\ Len(doc.providers.keys) = 1
       /\ doc.providers.keys[1] \notin Range(ProviderArms)) =>
        /\ config.status = "exit" /\ config.code = EXIT_CONFIG
        /\ config.provider = NoProvider
        /\ last.polled = "none" /\ ~last.contacted /\ last.ran = <<>>
        /\ last.cmd # "none" => (last.how = "exit" /\ last.code = EXIT_CONFIG)

\* C9 witness: a 'check' on a document whose only provider section is
\* 'consul', with hooks declared.
C9_Witness ==
    /\ last.cmd = "check"
    /\ doc.providers.keys = <<"consul">>
    /\ Len(doc.hooks.keys) = 2
    /\ doc.invalid = {}
    /\ last.how = "exit" /\ last.code = EXIT_CONFIG

\* ---------------------------------------------------------------------- C10
\* C10: when the settings of the provider section or of a recognised hook
\* section do not deserialize, the load returns no Config, not even a
\* partial one: the process ends, no poll is made, the remote source is not
\* called and no hook of the document is run.
C10_InvalidSectionAbortsLoad ==
    (Invoked /\ doc.file = "ok" /\ doc.invalid # {}) =>
        /\ config.status \in {"exit", "panic"} /\ config.code # EXIT_OK
        /\ config.provider = NoProvider /\ config.hooks = <<>>
        /\ last.polled = "none" /\ ~last.contacted /\ last.ran = <<>>
        /\ last.cmd # "none" => last.how = config.status
        /\ (doc.providers.present /\ doc.providers.table /\ disk.file = "ok"
              /\ (doc.tpl \/ "template" \notin Range(doc.hooks.keys)))
              => (config.status = "exit" /\ config.code = EXIT_CONFIG)

\* C10 witness: a 'check' on a document with a mock provider, a raw hook and
\* after it a file hook whose settings do not deserialize.
C10_Witness ==
    /\ last.cmd = "check"
    /\ doc.providers.keys = <<"mock">>
    /\ doc.hooks.keys = <<"raw", "file">>
    /\ doc.invalid = {"file"}
    /\ last.how = "exit" /\ last.code = EXIT_CONFIG

\* ---------------------------------------------------------------------- C11
\* The declared hook names that are known variants, in the declared order.
KnownHooksOf(keys) == SelectSeq(keys, LAMBDA name : name \in Range(HookArms))

\* C11: a name under 'hooks' that is no known variant is skipped: a load
\* that succeeds gives exactly the declared known names, in their order, and
\* a document whose provider section and known hook sections are in order
\* (and whose state file, if it names one, is usable) loads, whatever
\* unknown hook names its 'hooks' table also declares.
C11_UnknownHooksAreSkipped ==
    /\ (config.status = "ok" /\ doc.hooks.present)
          => KindsOf(config.hooks) = KnownHooksOf(doc.hooks.keys)
    /\ (config.status # "none" /\ doc.file = "ok" /\ doc.invalid = {} /\ doc.tpl
          /\ doc.providers.present /\ Len(doc.providers.keys) = 1
          /\ doc.providers.keys[1] \in Range(ProviderArms)
          /\ doc.hooks.table /\ disk.file = "ok")
          => config.status = "ok"

\* C11 witness: an unknown name declared between two known hooks; the load
\* succeeded and the 'check' ran the two known hooks.
C11_Witness ==
    /\ doc.hooks.keys = <<"file", "slack", "raw">>
    /\ config.status = "ok"
    /\ KindsOf(config.hooks) = <<"file", "raw">>
    /\ last.cmd = "check" /\ last.how = "ok" /\ last.ran = <<"file", "raw">>

\* ---------------------------------------------------------------------- C12
\* C12: a document without a 'hooks' section, its provider section in order
\* and its state file, if it names one, usable, loads with an empty hook list; a 'check' on it polls the provider, and
\* when the poll finds a change and its write succeeds the state file holds
\* the new version and data although no hook is there to run.
C12_NoHooksSectionIsFine ==
    (config.status # "none" /\ doc.file = "ok" /\ ~doc.hooks.present
       /\ doc.invalid = {} /\ doc.providers.present /\ Len(doc.providers.keys) = 1
       /\ doc.providers.keys[1] \in Range(ProviderArms)
       /\ disk.file = "ok") =>
        /\ config.status = "ok" /\ config.hooks = <<>>
        /\ last.cmd = "check" =>
              /\ last.contacted = ContactsRemote(config.provider)
              /\ last.polled = "Some" => (last.how = "ok" /\ last.ran = <<>>)
              /\ (last.polled = "Some" /\ config.provider.kind = "aws"
                    /\ config.provider.state_file /\ seen.saved) =>
                    disk.appConfig = [present |-> TRUE, version |-> remote.version,
                                      data |-> remote.data]

\* C12 witness: a 'check' on an aws document with a state file and no
\* 'hooks' section fetched version 1 and saved it.
C12_Witness ==
    /\ ~doc.hooks.present
    /\ last.cmd = "check" /\ last.polled = "Some" /\ last.how = "ok"
    /\ config.provider.kind = "aws" /\ config.provider.state_file
    /\ config.hooks = <<>>
    /\ disk.appConfig.present /\ disk.appConfig.version = 1 /\ disk.appConfig.data = "a"

\* ---------------------------------------------------------------------- C13
\* The payload of the cached snapshot behind a provider (the mock's fixed
\* data).
CachedData(p, d) ==
    IF p.kind = "aws" THEN ConnDb(p, d).appConfig.data
    ELSE IF p.kind = "param_store" THEN ConnDb(p, d).param_store.data
    ELSE p.data

\* C13: query() returns the payload of the cached snapshot, whatever the
\* remote source holds, and leaves the provider and its database (cached
\* version and data) exactly as they were, however often it is called.
C13_QueryReadsOnly ==
    ret.op = "query" =>
        /\ ret.kind = "Ok"
        /\ ret.data = CachedData(prov, disk)
        /\ ret.intact

\* C13 witness: the second of two query() calls in a row on an aws provider
\* whose cache holds version 1, "a" while the remote source has moved on to
\* other content.
C13_Witness ==
    /\ ret.op = "query" /\ ret.of = "aws" /\ ret.before.op = "query"
    /\ ret.data = "a" /\ remote.data = "b"
    /\ ConnDb(prov, disk).appConfig.version = 1 /\ remote.version = 0

\* ---------------------------------------------------------------------- C14
\* C14: a 'check' whose call of the remote source fails (no answer, or an
\* answer without a usable version or content) ends the process without
\* running a hook, and its poll leaves the cached snapshot as it was.
C14_FailedFetchKeepsCache ==
    (last.cmd = "check" /\ ContactsRemote(config.provider) /\ ~last.fetched) =>
        /\ last.how \in {"exit", "panic"}
        /\ last.polled = "none"
        /\ last.ran = <<>> /\ last.effects = <<>>
        /\ last.kept

\* C14 witness: the state file holds version 1 from an earlier 'check'; the
\* remote call of this 'check' fails, the process exits with UNAVAILABLE, the
\* declared hook has not run and the state file still holds version 1.
C14_Witness ==
    /\ last.cmd = "check" /\ ContactsRemote(config.provider) /\ ~last.fetched
    /\ last.how = "exit" /\ last.code = EXIT_UNAVAILABLE
    /\ config.provider.state_file /\ Len(config.hooks) = 1
    /\ disk.appConfig.version = 1 /\ disk.appConfig.data = "a"
    /\ seen.valid

\* ---------------------------------------------------------------------- C15
\* C15 (as the spec states it): for the aws and the param_store provider, a
\* first poll() whose remote call succeeded with an identity other than the
\* cached one, and whose write of the cached snapshot fails, still returns
\* the remote payload.
C15_CacheWriteIsBestEffort ==
    (ret.op = "poll" /\ ret.of \in {"aws", "param_store"} /\ ret.before.op = "new"
       /\ ~ret.same /\ ~ret.wrote /\ ~ret.changed) =>
        /\ ret.kind = "Some"
        /\ ret.data = remote.data

\* ---------------------------------------------------------------------- C16
\* The record with id 0 of the table a provider of this kind keeps.
RecordOf(kind, db) == IF kind = "aws" THEN db.appConfig ELSE db.param_store

\* The record a poll() that found the remote source at rem saves.
SavedRecord(kind, rem) ==
    IF kind = "aws"
    THEN [present |-> TRUE, version |-> rem.version, data |-> rem.data]
    ELSE [present |-> TRUE, data |-> rem.data]

\* The step is a poll() whose remote call succeeded and gave an identity
\* other than the cached one, and it has saved what the remote source holds.
StepIsChangedPoll ==
    /\ ret'.tick # ret.tick
    /\ ret'.op = "poll" /\ ret'.kind = "Some" /\ ret'.wrote
    /\ ~ret'.same
    /\ RecordOf(ret'.of, ConnDb(prov', disk')) = SavedRecord(ret'.of, remote)

\* C16 (as the spec states it): the state file changes only when a constructor seeds a store that
\* had no record, or in a poll() that fetched a changed identity; the
\* in-memory database of a living provider changes only in such a poll();
\* construction on an existing store, query(), a poll() without change and a
\* failed poll() leave the record; and a storing provider always has its
\* record.
C16_OnlyChangedPollUpdates ==
    [][ /\ disk' # disk =>
              \/ /\ ret'.op = "new"
                 /\ ~RecordOf(ret'.of, disk).present
                 /\ RecordOf(ret'.of, disk') = SavedRecord(ret'.of, [version |-> 0, data |-> ""])
              \/ StepIsChangedPoll
        /\ (prov.kind # "none" /\ prov'.kind # "none" /\ prov'.mem # prov.mem)
              => StepIsChangedPoll
        /\ prov'.kind \in {"aws", "param_store"}
              => RecordOf(prov'.kind, ConnDb(prov', disk')).present
      ]_vars

\* ---------------------------------------------------------------------- C17
\* C17: a constructor seeds the record with version 0 and data "" only when
\* the store has none: on a state file that holds a record it leaves the
\* file as it is (and reads its version from it), on a store without a
\* record it leaves the seed; and create_cache applied twice gives what it
\* gives applied once, on every database.
C17_SeedOnlyOnFirstUse ==
    [][ /\ (prov.kind = "none" /\ prov'.kind \in {"aws", "param_store"}) =>
              /\ (prov'.state_file /\ RecordOf(prov'.kind, disk).present)
                    => disk' = disk
              /\ ~(prov'.state_file /\ RecordOf(prov'.kind, disk).present)
                    => RecordOf(prov'.kind, ConnDb(prov', disk'))
                          = SavedRecord(prov'.kind, [version |-> 0, data |-> ""])
              /\ prov'.kind = "aws"
                    => prov'.current_version = ConnDb(prov', disk').appConfig.version
        /\ \A db \in {disk, prov.mem} :
              /\ AWS_create_cache(AWS_create_cache(db)) = AWS_create_cache(db)
              /\ ParamStore_create_cache(ParamStore_create_cache(db))
                    = ParamStore_create_cache(db)
      ]_vars

\* C17 witness: a provider has just been constructed on a state file that
\* held version 1, "a" from an earlier process, and the record is as it was.
C17_Witness ==
    /\ ret.op = "new" /\ prov.kind = "aws" /\ prov.state_file
    /\ prov.current_version = 1
    /\ disk.appConfig = [present |-> TRUE, version |-> 1, data |-> "a"]

\* ---------------------------------------------------------------------- C18
\* The four classes of errors of an invocation, told by what happened.
FileNotFound == last.cmd # "none" /\ doc.file = "missing"

\* The load of d ends in get_provider's checks of the 'providers' entry: it
\* is missing, is no table, has not one section, or has a section that no
\* arm of parse_providers! names or whose settings do not deserialize.
ProvidersUnparsable(d) ==
    \/ ~d.providers.present
    \/ ~d.providers.table
    \/ Len(d.providers.keys) # 1
    \/ d.providers.keys[1] \notin Range(ProviderArms)
    \/ d.providers.keys[1] \in d.invalid

\* parse_hooks! on d ends in a check of the 'hooks' entry: it is no table,
\* or a section of a known type does not deserialize and no template
\* section before it has ended the process on its unreadable file.
HooksUnparsable(d) ==
    /\ d.hooks.present
    /\ \/ ~d.hooks.table
       \/ \E i \in 1..Len(d.hooks.keys) :
             /\ d.hooks.keys[i] \in Range(HookArms) \cap d.invalid
             /\ \A j \in 1..(i - 1) :
                   ~(d.hooks.keys[j] = "template" /\ ~d.tpl /\ "template" \notin d.invalid)

\* The load of d, next to the state file dk, ends in a parse check of
\* config.rs: the text is no TOML, or get_provider rejects the 'providers'
\* entry, or the provider is built (the state file, if one is named, can be
\* used) and parse_hooks! rejects the 'hooks' entry.
Unparsable(d, dk) ==
    \/ d.file = "garbled"
    \/ /\ d.file = "ok"
       /\ \/ ProvidersUnparsable(d)
          \/ /\ ~(d.state_file /\ dk.file # "ok")
             /\ HooksUnparsable(d)

ConfigParseError == last.cmd # "none" /\ Unparsable(doc, disk)

\* The call to poll's remote source, or the call of a template's helper
\* `key` to the parameter store, got no answer.
RemoteUnavailable ==
    /\ last.cmd = "check"
    /\ \/ ContactsRemote(config.provider) /\ ~last.fetched /\ last.how = "exit"
       \/ "keyerr" \in Range(last.outcomes)

HookFailure == last.cmd = "check" /\ last.polled = "Some" /\ last.how # "ok"

\* C18 (as the spec states it): a missing configuration file, a
\* configuration that does not parse, an unavailable remote source and a
\* failing hook each end the process with a status that is not zero and that
\* no other of the four classes ends with; a run that succeeds ends with 0.
C18_DistinctExitStatus ==
    /\ Cardinality({EXIT_OK, EXIT_OSFILE, EXIT_CONFIG, EXIT_UNAVAILABLE}) = 4
    /\ FileNotFound => last.code = EXIT_OSFILE
    /\ ConfigParseError => last.code = EXIT_CONFIG
    /\ RemoteUnavailable => last.code = EXIT_UNAVAILABLE
    /\ HookFailure => last.code \notin {EXIT_OK, EXIT_OSFILE, EXIT_CONFIG, EXIT_UNAVAILABLE}
    /\ (last.cmd # "none" /\ last.how = "ok") => last.code = EXIT_OK

\* ---------------------------------------------------------------------- C19
\* The last hook called was a command hook.
CommandRanLast ==
    /\ last.cmd = "check" /\ last.polled = "Some"
    /\ last.ran # <<>> /\ last.ran[Len(last.ran)] = "command"

\* C19 (as the spec states it): in both modes a command whose exit status is
\* zero makes run() return Ok, and a command whose exit status is not zero
\* makes run() return an error to its caller.
C19_NonZeroStatusIsAnError ==
    CommandRanLast =>
        /\ last.outcomes[Len(last.ran)] = "ok" => last.how = "ok"
        /\ last.outcomes[Len(last.ran)] = "nonzero" =>
              (last.how = "err" /\ last.code = EXIT_FAILURE)

\* ---------------------------------------------------------------------- C20
\* A 'check' called the template hook with a payload that does not
\* deserialize in the hook's declared format.
TemplateMalformed ==
    /\ last.cmd = "check" /\ last.polled = "Some"
    /\ \E i \in 1..Len(last.ran) :
          last.ran[i] = "template" /\ last.outcomes[i] = "malformed"

\* C20: a payload that is malformed for the template hook's declared format
\* makes Template::run fail, so that the process ends with a status that is
\* not zero: the hook is the last one called, it has rendered and written
\* nothing, and no hook declared after it is called.
C20_MalformedPayloadIsFatal ==
    TemplateMalformed =>
        /\ last.how # "ok" /\ last.code # EXIT_OK
        /\ last.ran[Len(last.ran)] = "template"
        /\ last.ran = SubSeq(KindsOf(config.hooks), 1, Len(last.ran))
        /\ last.effects = EffectsOf(config.hooks, Len(last.ran) - 1, last.data)
        /\ \A i \in 1..Len(last.effects) : last.effects[i].hook # "template"

\* C20 witness: the template hook, the second of three, met a malformed
\* payload; the first hook has taken effect and the third was not called.
C20_Witness ==
    /\ TemplateMalformed
    /\ Len(config.hooks) = 3
    /\ last.ran = SubSeq(KindsOf(config.hooks), 1, 2)
    /\ last.how = "panic" /\ last.code = EXIT_PANIC
    /\ Len(last.effects) = 1

\* ---------------------------------------------------------------------- C21
\* C21: after any sequence of poll() and query() calls on a Mock provider,
\* whatever the remote sources do meanwhile, a poll() returns the configured
\* data as a payload (never 'no change'), a query() returns that same data,
\* and neither touches a state file.
C21_MockReturnsItsData ==
    (ret.of = "mock" /\ ret.op \in {"poll", "query"}) =>
        /\ ret.op = "poll" => ret.kind = "Some"
        /\ ret.op = "query" => ret.kind = "Ok"
        /\ ret.data = doc.data
        /\ prov.kind = "mock" /\ prov.data = doc.data
        /\ disk = NoDb

\* C21 witness: a Mock configured with "b" is polled right after a poll that
\* gave "b", and gives "b" again.
C21_Witness ==
    /\ ret.of = "mock" /\ ret.op = "poll" /\ ret.kind = "Some" /\ ret.data = "b"
    /\ ret.before.op = "poll" /\ ret.before.kind = "Some" /\ ret.before.data = "b"

\* ---------------------------------------------------------------------- C22
\* C22: a 'check' whose poll() returned a payload and in which no hook failed
\* has called every hook of the list once, in list order, each with the
\* payload poll() returned; a 'check' whose poll() returned no payload has
\* called no hook and ends with status 0.
C22_EveryHookOnceInOrder ==
    /\ (last.cmd = "check" /\ last.polled = "Some" /\ last.how = "ok") =>
          /\ last.ran = KindsOf(config.hooks)
          /\ last.effects = EffectsOf(config.hooks, Len(config.hooks), last.data)
          /\ last.code = EXIT_OK
    /\ (last.cmd = "check" /\ last.polled = "None") =>
          /\ last.ran = <<>> /\ last.effects = <<>>
          /\ last.how = "ok" /\ last.code = EXIT_OK

\* C22 witness: a 'check' of a document with two hooks got the payload "b"
\* and both hooks took effect on it, in the list's order.
C22_Witness ==
    /\ last.cmd = "check" /\ last.polled = "Some" /\ last.how = "ok"
    /\ Len(config.hooks) = 2
    /\ last.data = "b"
    /\ last.effects = <<[hook |-> config.hooks[1].kind, payload |-> "b"],
                        [hook |-> config.hooks[2].kind, payload |-> "b"]>>

\* ---------------------------------------------------------------------- C23
\* C23 (as the spec states it): in piped mode run() writes the whole payload
\* to the child's stdin, closes it and only then waits, and so returns for
\* every child that reads all its input, writes output and exits, whatever
\* the size of the payload and of the child's output: run() and the child
\* never block each other on full pipes.
C23_PipedRunTerminates == <>(pipe.pc = "returned")

\* ---------------------------------------------------------------------- C24
\* C24 (as the spec states it): a poll() whose fetch succeeded decides by
\* equality alone: the version-token provider returns the payload whenever
\* the remote version differs from the cached version, lower or higher, and
\* the value-keyed provider returns the payload exactly when the remote value
\* differs from the cached value.
C24_ChangeIsInequality ==
    (ret.op = "poll" /\ ret.kind \in {"Some", "None"}) =>
        /\ ret.of = "aws" => (~ret.same => ret.kind = "Some")
        /\ ret.of = "param_store" => (ret.kind = "Some" <=> ~ret.same)

\* ---------------------------------------------------------------------- C25
\* C25 (as stated): in every state of an AWS provider's life its
\* current_version field equals the version in the cache record, also after
\* a poll() that found a change and updated the cache.
C25_CurrentVersionIsCached ==
    prov.kind = "aws" =>
        prov.current_version = AWS_pull_latest_version(ConnDb(prov, disk))

\* ---------------------------------------------------------------------- C26
\* The step is a 'check' invocation made right after a 'check' in which
\* poll() of a caching provider returned a payload and a hook failed.
CheckAfterHookFailure ==
    /\ HookFailure
    /\ config.provider.kind \in {"aws", "param_store"}
    /\ last'.cmd = "check" /\ remote' = remote

\* C26 (as stated): after a 'check' in which a hook failed, the next 'check'
\* that finds the identity of the remote source as the failed one found it
\* runs no hook.
C26_FailedHooksNeverRerun ==
    [][ (CheckAfterHookFailure /\ last'.again # "no") => last'.ran = <<>> ]_vars

\* C26 (amended): with a provider that keeps its cache in a configured
\* state_file and whose poll() saved the new identity, the state file holds
\* that identity when a hook fails, and the next 'check' that finds the remote
\* identity as the failed one found it gets no payload and runs no hook: the
\* hooks that failed or were skipped are not run for that payload.
C26_FailedHooksNotRerunWithStateFile ==
    [][ (HookFailure /\ config.provider.kind \in {"aws", "param_store"}
           /\ config.provider.state_file /\ seen.saved) =>
          /\ SameIdentity(config.provider.kind,
                          RecordOf(config.provider.kind, disk), seen)
          /\ (CheckAfterHookFailure /\ last'.again = "saved") =>
                (last'.polled = "None" /\ last'.ran = <<>> /\ last'.how = "ok")
      ]_vars

\* C26 witness: a 'check' with a state file got the payload of version 1 and
\* saved it; the first of its two hooks failed, the second was not called,
\* and the state file holds version 1.
C26_Witness ==
    /\ HookFailure
    /\ config.provider.kind = "aws" /\ config.provider.state_file /\ seen.saved
    /\ Len(config.hooks) = 2 /\ Len(last.ran) = 1
    /\ remote.version = 1 /\ seen.version = 1
    /\ disk.appConfig.version = 1

\* ---------------------------------------------------------------------- C27
\* The values create_cache seeds the record with.
SeedSentinel == [version |-> 0, data |-> ""]

\* The step is the first poll() of a provider whose constructor left the
\* seed record in its store, and it returns Some or None.
FirstPollOnSeed ==
    /\ ret.op = "new" /\ prov.kind \in {"aws", "param_store"}
    /\ RecordOf(prov.kind, ConnDb(prov, disk)) = SavedRecord(prov.kind, SeedSentinel)
    /\ ret'.op = "poll" /\ ret'.kind \in {"Some", "None"}

\* C27: the first poll() on a freshly seeded store returns no payload exactly
\* when the identity of the remote source equals the seed's (version 0 for
\* the version-token provider, whatever the content; the empty string for the
\* value-keyed provider), and then leaves the seed record; for every other
\* remote identity it returns the remote payload.
C27_SeedSentinelHidesRemote ==
    [][ FirstPollOnSeed =>
          /\ ret'.kind = "None" <=> SameIdentity(prov.kind, remote, SeedSentinel)
          /\ ret'.kind = "None" => (prov' = prov /\ disk' = disk)
          /\ ret'.kind = "Some" => ret'.data = remote.data
      ]_vars

\* C27 witness: the remote source holds the content "a" under version 0; the
\* first poll() of an aws provider on its fresh store has returned None and
\* the store still holds the seed.
C27_Witness ==
    /\ ret.op = "poll" /\ ret.of = "aws" /\ ret.before.op = "new"
    /\ ret.kind = "None" /\ ~ret.changed
    /\ remote = [version |-> 0, data |-> "a"]
    /\ ConnDb(prov, disk).appConfig = [present |-> TRUE, version |-> 0, data |-> ""]

====
